---- MODULE Spec2Model ----
(***************************************************************************)
(* Model of scripts/show_cache.py: the cache inventory run (paginated      *)
(* listing, key decoding, document fetch loop, report) and the table       *)
(* renderer.  Text is modelled as sequences of one-character strings so    *)
(* that split, endswith, slicing, upper-casing and padding are computed.   *)
(***************************************************************************)
EXTENDS Integers, Sequences, FiniteSets, TLC

VARIABLES
    bucket,     \* the store: every object key of the bucket, in store order
    pc,         \* position of main(): "list", "fetch", "report", "done", or "table"
    token,      \* list_objects: continuation token (0 models None, also once it returned)
    objects,    \* list_objects: accumulator of listed objects
    lastCall,   \* the most recent store call: "none", "list" or "get"
    keys,       \* main: result of get_cache_keys, <<s3_key, cache_key>> pairs
    idx,        \* main: position of the fetch loop in keys
    keys_json,  \* main: the inventory dict, in insertion order
    fetchLog,   \* every document get_json returned, in call order
    output,     \* everything printed, in order: [stream, text]
    raised,     \* the exception that left main(), if any
    exitCode,   \* process exit status, -1 while running
    rows,       \* show_table argument: rows
    columns     \* show_table argument: columns

vars == <<bucket, pc, token, objects, lastCall, keys, idx, keys_json, fetchLog,
          output, raised, exitCode, rows, columns>>

----------------------------------------------------------------------------
(* Bounds of the model *)

MaxObjects == 3      \* objects in an exhaustively explored bucket
LargeExtra == 1      \* large buckets hold ProgressEvery .. ProgressEvery + LargeExtra keys
MaxRows == 2         \* rows of a directly rendered table
MaxCols == 2         \* columns of a directly rendered table

(* Program constants *)

MaxKeys == 1000
ProgressEvery == 100

----------------------------------------------------------------------------
(* Text *)

Min(a, b) == IF a < b THEN a ELSE b
Max(a, b) == IF a > b THEN a ELSE b

RECURSIVE JoinWith(_, _)
JoinWith(sep, ss) ==
    IF ss = <<>> THEN <<>>
    ELSE IF Len(ss) = 1 THEN ss[1]
    ELSE ss[1] \o sep \o JoinWith(sep, Tail(ss))

RECURSIVE SumSeq(_)
SumSeq(ns) == IF ns = <<>> THEN 0 ELSE Head(ns) + SumSeq(Tail(ns))

\* max() of a non-empty list
MaxSeq(ns) == CHOOSE m \in { ns[i] : i \in DOMAIN ns } : \A i \in DOMAIN ns : m >= ns[i]

Repeat(c, n) == [i \in 1..n |-> c]

DigitChars == <<"0", "1", "2", "3", "4", "5", "6", "7", "8", "9">>

RECURSIVE IntStr(_)
IntStr(n) ==
    IF n < 10 THEN <<DigitChars[n + 1]>>
    ELSE IntStr(n \div 10) \o <<DigitChars[(n % 10) + 1]>>

LowerChars == <<"a","b","c","d","e","f","g","h","i","j","k","l","m",
                "n","o","p","q","r","s","t","u","v","w","x","y","z">>
UpperChars == <<"A","B","C","D","E","F","G","H","I","J","K","L","M",
                "N","O","P","Q","R","S","T","U","V","W","X","Y","Z">>

UpperChar(c) ==
    IF \E i \in DOMAIN LowerChars : LowerChars[i] = c
    THEN UpperChars[CHOOSE i \in DOMAIN LowerChars : LowerChars[i] = c]
    ELSE c

Upper(s) == [i \in DOMAIN s |-> UpperChar(s[i])]

\* '%-<width>s' % s
LJustFormat(width, s) ==
    IF Len(s) >= width THEN s ELSE s \o Repeat(" ", width - Len(s))

RECURSIVE Split(_)
Split(s) ==
    IF s = <<>> THEN << <<>> >>
    ELSE LET front == Split(SubSeq(s, 1, Len(s) - 1))
             c == s[Len(s)]
         IN IF c = "/" THEN Append(front, <<>>)
            ELSE [front EXCEPT ![Len(front)] = Append(@, c)]

EndsWith(s, suffix) ==
    /\ Len(s) >= Len(suffix)
    /\ SubSeq(s, Len(s) - Len(suffix) + 1, Len(s)) = suffix

StartsWith(s, prefix) ==
    /\ Len(s) >= Len(prefix)
    /\ SubSeq(s, 1, Len(prefix)) = prefix

DotJson == <<".", "j", "s", "o", "n">>
Prefix == <<"c", "a", "c", "h", "e">>
Separator == <<" ", "|", " ">>

K_key == <<"k", "e", "y">>
K_project == <<"p", "r", "o", "j", "e", "c", "t">>
K_component == <<"c", "o", "m", "p", "o", "n", "e", "n", "t">>
K_rule == <<"r", "u", "l", "e">>
K_image == <<"i", "m", "a", "g", "e">>

Fields == <<K_project, K_component, K_rule, K_image>>
MainColumns == <<K_key, K_project, K_component, K_rule, K_image>>

----------------------------------------------------------------------------
(* The object store (external collaborator), as the run sees it *)

Path(segments) == JoinWith(<<"/">>, segments)

Cache2 == Prefix \o <<"2">>
Other == <<"o", "t", "h", "e", "r">>
A_json == <<"a">> \o DotJson
B_json == <<"b">> \o DotJson
M_txt == <<"m", ".", "t", "x", "t">>

\* Object keys of the exhaustively explored buckets.
CorePaths ==
    { Path(<<Prefix, A_json>>), Path(<<Prefix, B_json>>), Path(<<Cache2, A_json>>),
      Path(<<Prefix, M_txt>>), Path(<<Prefix, <<"k">>, A_json>>),
      Prefix \o A_json, Path(<<Other, A_json>>) }

\* Object keys of the single-object buckets: every shape of one to three segments.
ProbeFirst == { Prefix, Cache2, Prefix \o A_json, Other }
ProbeSegments ==
    { <<>>, <<"a">>, A_json, DotJson, M_txt, <<"j", "s", "o", "n">>,
      <<"a", ".", "J", "S", "O", "N">> }
ProbePaths ==
    ProbeFirst
    \cup { Path(<<f, s>>) : f \in ProbeFirst, s \in ProbeSegments }
    \cup { Path(<<f, s, t>>) : f \in ProbeFirst, s \in ProbeSegments, t \in ProbeSegments }

IsDistinct(seq) == \A i, j \in DOMAIN seq : i # j => seq[i] # seq[j]

SmallBuckets ==
    UNION { { b \in [1..n -> CorePaths] : IsDistinct(b) } : n \in 0..MaxObjects }

ProbeBuckets == { <<p>> : p \in ProbePaths }

\* A bucket of n cache documents cache/1.json .. cache/n.json; when twin > 0 the
\* object at that position is cache2/1.json instead.
LargePath(first, i) == Path(<<first, IntStr(i) \o DotJson>>)
LargeBucket(n, twin) ==
    [i \in 1..n |-> IF i = twin THEN LargePath(Cache2, 1) ELSE LargePath(Prefix, i)]
LargeSizes == ProgressEvery .. (ProgressEvery + LargeExtra)
LargeBuckets == { LargeBucket(n, twin) : n \in LargeSizes, twin \in {0, 2} }
                \cup { LargeBucket(n, n) : n \in LargeSizes }

Buckets == SmallBuckets \cup ProbeBuckets \cup LargeBuckets

DocA ==
    (K_project :> <<"p", "1">>) @@ (K_component :> <<"c", "1">>)
    @@ (K_rule :> <<"r", "1">>) @@ (K_image :> <<"i", "1">>)
DocB ==
    (K_project :> <<"p", "2">>) @@ (K_component :> <<"c", "2">>)
    @@ (K_rule :> <<"r", "1">>) @@ (K_image :> <<"i", "2", ":", "l", "a", "t", "e", "s", "t">>)
Without(doc, field) == [f \in DOMAIN doc \ {field} |-> doc[f]]
DocSet == {DocA, DocB} \cup { Without(DocA, Fields[i]) : i \in DOMAIN Fields }

\* The documents the object stored under s3_key may hold. In the large buckets every
\* object holds one whole document, whose project names the key's first segment.
Bodies(b, s3_key) ==
    IF Len(b) >= ProgressEvery
    THEN { [DocA EXCEPT ![K_project] = Split(s3_key)[1]] }
    ELSE DocSet

\* Objects under the listing prefix, in store order.
Listing(b) == SelectSeq(b, LAMBDA p : StartsWith(p, Prefix))

\* Responses list_objects_v2(Prefix='cache', MaxKeys=1000, ContinuationToken=tok)
\* may give: a page of any size up to MaxKeys, truncated unless it is the last;
\* a response with no objects may omit 'Contents'.
ListObjectsV2(b, tok) ==
    LET all == Listing(b)
        rest == SubSeq(all, tok + 1, Len(all))
        Page(k) ==
            IF k < Len(rest)
            THEN [Contents |-> [i \in 1..k |-> [Key |-> rest[i]]],
                  IsTruncated |-> TRUE, NextContinuationToken |-> tok + k]
            ELSE [Contents |-> [i \in 1..k |-> [Key |-> rest[i]]],
                  IsTruncated |-> FALSE]
    IN IF rest = <<>>
       THEN { [IsTruncated |-> FALSE], [Contents |-> <<>>, IsTruncated |-> FALSE] }
       ELSE { Page(k) : k \in 1..Min(MaxKeys, Len(rest)) }

----------------------------------------------------------------------------
(* Exceptions and output *)

NoException == [type |-> "None", arg |-> <<>>]
ValueError(s3_key) ==
    [type |-> "ValueError",
     arg |-> <<"U","n","e","x","p","e","c","t","e","d"," ","S","3"," ","k","e","y",":"," ">>
             \o s3_key]
KeyError(name) == [type |-> "KeyError", arg |-> name]
ClientError == [type |-> "ClientError", arg |-> <<>>]

K_Contents == <<"C", "o", "n", "t", "e", "n", "t", "s">>

\* show_status: print to sys.stderr
show_status(text) == [stream |-> "stderr", text |-> text]
\* print: to sys.stdout
print(text) == [stream |-> "stdout", text |-> text]

FoundMessage(n) ==
    <<"F","o","u","n","d"," ">> \o IntStr(n) \o <<" ","c","a","c","h","e"," ","k","e","y","s">>
RetrievedMessage(n) ==
    <<"R","e","t","r","i","e","v","e","d"," ">> \o IntStr(n) \o <<" ","k","e","y","s">>
NoRowsMessage == <<"N", "o", " ", "r", "o", "w", "s">>

----------------------------------------------------------------------------
(* Table renderer *)

\* Variant: the column name's own length is left out of the width.
longest_ValuesOnly(rs, column) == MaxSeq([i \in DOMAIN rs |-> Len(rs[i][column])])

longest(rs, column) ==
    LET col_max == MaxSeq([i \in DOMAIN rs |-> Len(rs[i][column])])
    IN Max(Len(column), col_max)

show_table(rs, cols, separator, header) ==
    LET column_widths == [i \in DOMAIN cols |-> longest(rs, cols[i])]
        horiz_line == Repeat("=", SumSeq(column_widths) + Len(separator) * (Len(cols) - 1))
        column_headers == [i \in DOMAIN cols |-> LJustFormat(column_widths[i], Upper(cols[i]))]
        head == IF header
                THEN <<horiz_line, JoinWith(separator, column_headers), horiz_line>>
                ELSE <<>>
        body == [r \in DOMAIN rs |->
                    JoinWith(separator,
                             [i \in DOMAIN cols |-> LJustFormat(column_widths[i], rs[r][cols[i]])])]
    IN head \o body

\* str() of a dict of strings, as print(rows[0]) shows it
DictRepr(d, names) ==
    LET Quote(s) == <<"'">> \o s \o <<"'">>
        items == [i \in DOMAIN names |-> Quote(names[i]) \o <<":", " ">> \o Quote(d[names[i]])]
    IN <<"{">> \o JoinWith(<<",", " ">>, items) \o <<"}">>

----------------------------------------------------------------------------
(* Key decoding *)

\* Variant: only keys with too few parts are rejected (len(parts) < 2).
MalformedParts_TooFew(parts) == Len(parts) < 2

\* len(parts) != 2
MalformedParts(parts) == Len(parts) # 2

\* Variants: the slice drops one character too few, or one too many.
StripSuffix_Four(part) == SubSeq(part, 1, Len(part) - 4)
StripSuffix_Six(part) == SubSeq(part, 1, Len(part) - 6)

\* parts[1][:-5]
StripSuffix(part) == SubSeq(part, 1, Len(part) - 5)

\* Variant: each pair is inserted at the front of cache_keys instead of appended.
get_cache_keys_Prepend(objs) ==
    LET parts(obj) == Split(obj.Key)
        bad == { i \in DOMAIN objs : Len(parts(objs[i])) # 2 }
        matching == SelectSeq(objs, LAMBDA obj : EndsWith(parts(obj)[2], DotJson))
        n == Len(matching)
    IN IF bad # {}
       THEN [raised |-> ValueError(objs[CHOOSE i \in bad : \A j \in bad : i <= j].Key),
             cache_keys |-> <<>>]
       ELSE [raised |-> NoException,
             cache_keys |-> [i \in 1..n |->
                                <<matching[n + 1 - i].Key,
                                  SubSeq(parts(matching[n + 1 - i])[2], 1,
                                         Len(parts(matching[n + 1 - i])[2]) - 5)>>]]

\* The loop over objects: the first key that does not split into two parts raises;
\* otherwise every key whose second part ends in '.json' yields a pair, in order.
get_cache_keys(objs) ==
    LET parts(obj) == Split(obj.Key)
        bad == { i \in DOMAIN objs : MalformedParts(parts(objs[i])) }
        matching == SelectSeq(objs, LAMBDA obj : EndsWith(parts(obj)[2], DotJson))
    IN IF bad # {}
       THEN [raised |-> ValueError(objs[CHOOSE i \in bad : \A j \in bad : i <= j].Key),
             cache_keys |-> <<>>]
       ELSE [raised |-> NoException,
             cache_keys |-> [i \in DOMAIN matching |->
                                <<matching[i].Key, StripSuffix(parts(matching[i])[2])>>]]

----------------------------------------------------------------------------
(* The inventory dict *)

DictHas(d, k) == \E i \in DOMAIN d : d[i].k = k

\* Variant: an existing key keeps its first entry (setdefault).
DictSet_KeepFirst(d, k, v) ==
    IF \E i \in DOMAIN d : d[i].k = k THEN d ELSE Append(d, [k |-> k, v |-> v])

DictSet(d, k, v) ==
    IF DictHas(d, k)
    THEN [i \in DOMAIN d |-> IF d[i].k = k THEN [k |-> k, v |-> v] ELSE d[i]]
    ELSE Append(d, [k |-> k, v |-> v])

DictValues(d) == [i \in DOMAIN d |-> d[i].v]

\* The first required field the document lacks, in the order main reads them.
MissingFields(js) == { i \in DOMAIN Fields : Fields[i] \notin DOMAIN js }
FirstMissing(js) == Fields[CHOOSE i \in MissingFields(js) : \A j \in MissingFields(js) : i <= j]

BuildEntry(cache_key, js) ==
    (K_key :> cache_key) @@ (K_project :> js[K_project]) @@ (K_component :> js[K_component])
    @@ (K_rule :> js[K_rule]) @@ (K_image :> js[K_image])

----------------------------------------------------------------------------
(* The run: main() *)

Init ==
    /\ bucket \in Buckets
    /\ pc = "list"
    /\ token = 0
    /\ objects = <<>>
    /\ lastCall = "none"
    /\ keys = <<>>
    /\ idx = 1
    /\ keys_json = <<>>
    /\ fetchLog = <<>>
    /\ output = <<>>
    /\ raised = NoException
    /\ exitCode = -1
    /\ rows = <<>>
    /\ columns = <<>>

\* An exception leaves main(): the interpreter exits with status 1.
Abort(exc) ==
    /\ raised' = exc
    /\ exitCode' = 1
    /\ pc' = "done"

\* One iteration of the loop of list_objects; after the last page, get_cache_keys
\* and the count message of main.
ListPage ==
    /\ pc = "list"
    /\ \E resp \in ListObjectsV2(bucket, token) :
        /\ lastCall' = "list"
        /\ IF "Contents" \notin DOMAIN resp
           THEN /\ Abort(KeyError(K_Contents))
                /\ UNCHANGED <<token, objects, keys, output>>
           ELSE LET extended == objects \o resp.Contents
                IN /\ objects' = extended
                   /\ IF resp.IsTruncated
                      THEN /\ token' = resp.NextContinuationToken
                           /\ UNCHANGED <<pc, keys, output, raised, exitCode>>
                      ELSE LET decoded == get_cache_keys(extended)
                           IN /\ token' = 0
                              /\ IF decoded.raised # NoException
                                 THEN /\ Abort(decoded.raised)
                                      /\ UNCHANGED <<keys, output>>
                                 ELSE /\ keys' = decoded.cache_keys
                                      /\ output' = Append(output,
                                             show_status(FoundMessage(Len(decoded.cache_keys))))
                                      /\ pc' = IF decoded.cache_keys = <<>>
                                               THEN "report" ELSE "fetch"
                                      /\ UNCHANGED <<raised, exitCode>>
    /\ UNCHANGED <<bucket, idx, keys_json, fetchLog, rows, columns>>

\* list_objects_v2 surfaces a terminal store failure.
ListFail ==
    /\ pc = "list"
    /\ lastCall' = "list"
    /\ Abort(ClientError)
    /\ UNCHANGED <<bucket, token, objects, keys, idx, keys_json, fetchLog, output,
                   rows, columns>>

\* One iteration of the fetch loop of main.
FetchEntry ==
    /\ pc = "fetch"
    /\ LET s3_key == keys[idx][1]
           cache_key == keys[idx][2]
       IN \E js \in Bodies(bucket, s3_key) :
            /\ lastCall' = "get"
            /\ fetchLog' = Append(fetchLog, [s3_key |-> s3_key, cache_key |-> cache_key, js |-> js])
            /\ IF MissingFields(js) # {}
               THEN /\ Abort(KeyError(FirstMissing(js)))
                    /\ UNCHANGED <<idx, keys_json, output>>
               ELSE LET updated == DictSet(keys_json, cache_key, BuildEntry(cache_key, js))
                    IN /\ keys_json' = updated
                       /\ output' = IF Len(updated) % ProgressEvery = 0
                                    THEN Append(output, show_status(RetrievedMessage(Len(updated))))
                                    ELSE output
                       /\ idx' = idx + 1
                       /\ pc' = IF idx = Len(keys) THEN "report" ELSE "fetch"
                       /\ UNCHANGED <<raised, exitCode>>
    /\ UNCHANGED <<bucket, token, objects, keys, rows, columns>>

\* get_object surfaces a terminal store failure.
FetchFail ==
    /\ pc = "fetch"
    /\ lastCall' = "get"
    /\ Abort(ClientError)
    /\ UNCHANGED <<bucket, token, objects, keys, idx, keys_json, fetchLog, output,
                   rows, columns>>

\* The end of main: the rows, the empty case, the table.
Report ==
    /\ pc = "report"
    /\ LET rs == DictValues(keys_json)
       IN /\ rows' = rs
          /\ IF rs = <<>>
             THEN /\ output' = Append(output, print(NoRowsMessage))
                  /\ columns' = columns
             ELSE LET table == show_table(rs, MainColumns, Separator, TRUE)
                  IN /\ columns' = MainColumns
                     /\ output' = Append(output, print(DictRepr(rs[1], MainColumns)))
                                  \o [i \in DOMAIN table |-> print(table[i])]
    /\ exitCode' = 0
    /\ pc' = "done"
    /\ UNCHANGED <<bucket, token, objects, lastCall, keys, idx, keys_json, fetchLog, raised>>

Next == ListPage \/ ListFail \/ FetchEntry \/ FetchFail \/ Report

Spec == Init /\ [][Next]_vars

----------------------------------------------------------------------------
(* The renderer on its own: show_table(rows, columns) on arbitrary small tables *)

TableNames == { <<"k">>, <<"I", "d", "_", "2">> }
TableValues == { <<>>, <<"x">>, <<"l", "o", "n", "g", "e", "r">> }
TableColumnLists == UNION { [1..n -> TableNames] : n \in 1..MaxCols }
TableRowsFor(cols) ==
    LET names == { cols[i] : i \in DOMAIN cols }
    IN UNION { [1..n -> [names -> TableValues]] : n \in 1..MaxRows }

InitTable ==
    /\ columns \in TableColumnLists
    /\ rows \in TableRowsFor(columns)
    /\ pc = "table"
    /\ bucket = <<>>
    /\ token = 0
    /\ objects = <<>>
    /\ lastCall = "none"
    /\ keys = <<>>
    /\ idx = 1
    /\ keys_json = <<>>
    /\ fetchLog = <<>>
    /\ output = <<>>
    /\ raised = NoException
    /\ exitCode = -1

ShowTableCall ==
    /\ pc = "table"
    /\ LET table == show_table(rows, columns, Separator, TRUE)
       IN output' = [i \in DOMAIN table |-> print(table[i])]
    /\ pc' = "done"
    /\ UNCHANGED <<bucket, token, objects, lastCall, keys, idx, keys_json, fetchLog,
                   raised, exitCode, rows, columns>>

NextTable == ShowTableCall

SpecTable == InitTable /\ [][NextTable]_vars

----------------------------------------------------------------------------
(* Observations used by the properties *)

Texts(stream) ==
    LET sel == SelectSeq(output, LAMBDA o : o.stream = stream)
    IN [i \in DOMAIN sel |-> sel[i].text]
Stdout == Texts("stdout")
Stderr == Texts("stderr")

NumSlashes(p) == Cardinality({ i \in DOMAIN p : p[i] = "/" })
ListedPaths == [i \in DOMAIN objects |-> objects[i].Key]

\* The listing phase is over, and neither a store failure nor a response without
\* 'Contents' ended it.
ListFailed == lastCall = "list" /\ raised = ClientError
ContentsMissing == raised = KeyError(K_Contents)
ListingOver == pc \in {"fetch", "report", "done"}
ListingReturned == ListingOver /\ ~ListFailed /\ ~ContentsMissing

HasMalformedPath == \E i \in DOMAIN objects : NumSlashes(objects[i].Key) # 1
IsComplete(js) == \A i \in DOMAIN Fields : Fields[i] \in DOMAIN js
FetchedIncomplete == \E n \in DOMAIN fetchLog : ~IsComplete(fetchLog[n].js)
JsonPaths == SelectSeq(ListedPaths, LAMBDA p : EndsWith(p, DotJson))
IsProgress(text) == StartsWith(text, <<"R", "e", "t", "r", "i", "e", "v", "e", "d">>)
ProgressCount == Len(SelectSeq(Stderr, IsProgress))

----------------------------------------------------------------------------
(* Properties *)

\* C1: once list_objects is over without a store failure, it has returned, and what
\* it returned is every object under the prefix, in store order, each exactly once,
\* whatever the page boundaries were, also when there is no such object.
C1_PaginationComplete ==
    (ListingOver /\ ~ListFailed) =>
        (~ContentsMissing /\ ListedPaths = Listing(bucket))

\* C2: a run in which a fatal condition arose (a listed path without exactly two
\* segments, a fetched document lacking a required field, a store failure) is over,
\* exited non-zero, and printed nothing on the primary stream.
C2_FatalPrintsNothing ==
    /\ (ListingReturned /\ HasMalformedPath) => pc = "done"
    /\ FetchedIncomplete => pc = "done"
    /\ (pc = "done"
        /\ ((ListingReturned /\ HasMalformedPath) \/ FetchedIncomplete \/ raised = ClientError))
       => (exitCode > 0 /\ Stdout = <<>>)

C2_Witness ==
    /\ pc = "done"
    /\ raised.type = "ValueError"
    /\ Len(objects) = 3
    /\ NumSlashes(objects[1].Key) = 1 /\ EndsWith(objects[1].Key, DotJson)
    /\ NumSlashes(objects[3].Key) = 2
    /\ exitCode = 1

\* C3: a successful run with a non-empty inventory prints the count message, then
\* the progress messages, then the table; the messages go to the diagnostic stream
\* and the primary stream holds the table (rule, header, rule, one line per entry)
\* and nothing else.
C3_StdoutIsExactlyTheTable ==
    (pc = "done" /\ exitCode = 0 /\ keys_json # <<>>) =>
        /\ Len(Stdout) = Len(keys_json) + 3
        /\ Stdout = show_table(DictValues(keys_json), MainColumns, Separator, TRUE)
        /\ Stderr[1] = FoundMessage(Len(keys))
        /\ \A i \in 2..Len(Stderr) : IsProgress(Stderr[i])
        /\ \A i, j \in DOMAIN output :
              (output[i].stream = "stderr" /\ output[j].stream = "stdout") => i < j

\* C4: when the store lists nothing under the prefix, or only two-segment objects
\* without the .json suffix, and the store does not fail, the run prints the "no rows"
\* message alone, no table, and exits 0.
C4_EmptyInventoryNoRows ==
    (/\ pc = "done"
     /\ raised # ClientError
     /\ \A i \in DOMAIN bucket :
           StartsWith(bucket[i], Prefix) =>
               (NumSlashes(bucket[i]) = 1 /\ ~EndsWith(bucket[i], DotJson)))
    => (Stdout = <<NoRowsMessage>> /\ exitCode = 0 /\ rows = <<>>)

\* C5: key decoding. With a listed path that does not hold exactly one '/', the run
\* raises the malformed-key error for the first such path and fetches nothing.
\* Otherwise the decoded pairs are the listed paths ending in '.json', in order, each
\* with the key X such that the path is <first>/X.json; a path without the suffix is
\* never fetched and no inventory entry comes from it.
C5_KeyDecoding ==
    ListingReturned =>
        IF HasMalformedPath
        THEN LET first == CHOOSE i \in DOMAIN objects :
                              /\ NumSlashes(ListedPaths[i]) # 1
                              /\ \A j \in 1..(i - 1) : NumSlashes(ListedPaths[j]) = 1
             IN /\ raised.type = "ValueError"
                /\ EndsWith(raised.arg, ListedPaths[first])
                /\ Len(raised.arg) = Len(ListedPaths[first]) + 19
                /\ keys = <<>> /\ fetchLog = <<>> /\ keys_json = <<>>
        ELSE /\ raised.type # "ValueError"
             /\ [i \in DOMAIN keys |-> keys[i][1]] = JsonPaths
             /\ \A i \in DOMAIN keys :
                   LET s3_key == keys[i][1]
                       X == keys[i][2]
                       cut == Len(s3_key) - Len(X) - 5
                   IN /\ cut >= 1
                      /\ s3_key[cut] = "/"
                      /\ SubSeq(s3_key, cut + 1, Len(s3_key)) = X \o DotJson
             /\ \A n \in DOMAIN fetchLog :
                   /\ EndsWith(fetchLog[n].s3_key, DotJson)
                   /\ \E i \in DOMAIN keys : keys[i] = <<fetchLog[n].s3_key, fetchLog[n].cache_key>>
             /\ \A e \in DOMAIN keys_json : \E i \in DOMAIN keys : keys[i][2] = keys_json[e].k

C5_Witness ==
    /\ pc = "done" /\ exitCode = 0
    /\ Len(objects) = 3 /\ Len(keys) = 2 /\ Len(fetchLog) = 2
    /\ \E i \in DOMAIN objects : ~EndsWith(objects[i].Key, DotJson)
    /\ keys[1][2] # keys[2][2]

FirstSegment(p) ==
    SubSeq(p, 1, (CHOOSE i \in DOMAIN p : p[i] = "/" /\ \A j \in 1..(i - 1) : p[j] # "/") - 1)

\* C6 as stated: any two distinct listed paths that decode, also two that differ
\* only in their first segment, decode to distinct cache keys.
C6_DecodingInjective ==
    \A i, j \in DOMAIN keys : keys[i][1] # keys[j][1] => keys[i][2] # keys[j][2]

\* C6 amended: two distinct listed paths with the same first segment decode to
\* distinct cache keys; two paths that differ only in their first segment decode to
\* the same cache key.
C6_InjectiveWithinFirstSegment ==
    LET Rest(p) == SubSeq(p, Len(FirstSegment(p)) + 1, Len(p))
        firstAndKey == { <<FirstSegment(keys[i][1]), keys[i][2]>> : i \in DOMAIN keys }
        rests == { Rest(keys[i][1]) : i \in DOMAIN keys }
        restAndKey == { <<Rest(keys[i][1]), keys[i][2]>> : i \in DOMAIN keys }
    IN /\ Cardinality(firstAndKey) = Len(keys)
       /\ Cardinality(restAndKey) = Cardinality(rests)

C6_Witness ==
    /\ Len(keys) = 3
    /\ \E i, j \in DOMAIN keys :
          i # j /\ FirstSegment(keys[i][1]) = FirstSegment(keys[j][1])
    /\ \E i, j \in DOMAIN keys :
          i # j /\ FirstSegment(keys[i][1]) # FirstSegment(keys[j][1]) /\ keys[i][2] = keys[j][2]

\* C7: the inventory holds at most one entry per cache key, each entry's key field
\* is the key it is stored under, the keys are those of the documents fetched whole,
\* and each key holds the entry built from the last such document fetched for it.
C7_InventoryLastWins ==
    LET whole == { n \in DOMAIN fetchLog : IsComplete(fetchLog[n].js) }
    IN /\ \A i, j \in DOMAIN keys_json : i # j => keys_json[i].k # keys_json[j].k
       /\ \A i \in DOMAIN keys_json : keys_json[i].v[K_key] = keys_json[i].k
       /\ { keys_json[i].k : i \in DOMAIN keys_json } = { fetchLog[n].cache_key : n \in whole }
       /\ \A i \in DOMAIN keys_json :
             LET mine == { n \in whole : fetchLog[n].cache_key = keys_json[i].k }
                 last == CHOOSE n \in mine : \A m \in mine : m <= n
             IN \A f \in DOMAIN Fields :
                   keys_json[i].v[Fields[f]] = fetchLog[last].js[Fields[f]]

C7_Witness ==
    /\ pc = "done" /\ exitCode = 0
    /\ Len(fetchLog) = 3 /\ Len(keys_json) = 2
    /\ \E m, n \in DOMAIN fetchLog :
          /\ m < n
          /\ fetchLog[m].cache_key = fetchLog[n].cache_key
          /\ fetchLog[m].js # fetchLog[n].js

\* C8: while no exception was raised, the progress messages emitted are one per
\* positive multiple of 100 among the fetches made so far, also when keys repeat.
C8_ProgressEveryHundredFetches ==
    raised = NoException =>
        /\ ProgressCount = Len(fetchLog) \div ProgressEvery
        /\ \A i \in 2..Len(Stderr) : Stderr[i] = RetrievedMessage((i - 1) * ProgressEvery)

\* C10: no get before the listing returned and every listed path decoded; a
\* malformed listed path means no fetch and no count message; the gets are the
\* decoded keys in listing order, one each; no list call follows a get.
C10_PhaseOrder ==
    /\ lastCall = "list" => fetchLog = <<>>
    /\ lastCall = "get" =>
          /\ ListingOver
          /\ ListedPaths = Listing(bucket)
          /\ ~HasMalformedPath
          /\ Stderr # <<>>
    /\ (ListingOver /\ HasMalformedPath) =>
          (fetchLog = <<>> /\ lastCall = "list" /\ output = <<>>)
    /\ Len(fetchLog) <= Len(JsonPaths)
    /\ \A n \in DOMAIN fetchLog : fetchLog[n].s3_key = JsonPaths[n]
    /\ (pc = "done" /\ exitCode = 0) => Len(fetchLog) = Len(JsonPaths)

C10_Witness ==
    /\ pc = "done" /\ exitCode = 0
    /\ Len(objects) = 3 /\ Len(fetchLog) = 2
    /\ fetchLog[1].s3_key # fetchLog[2].s3_key
    /\ ~EndsWith(objects[2].Key, DotJson)

\* C9: show_table on a non-empty table. Each column's width is the largest of the
\* header's length and the lengths of the column's values; the rule is as long as the
\* widths plus the separator between columns; the output is rule, header, rule and
\* one line per row in input order; every line has the rule's length; each header
\* cell is the upper-cased column name and each data cell the row's value, both
\* padded with spaces on the right to the column's width.
C9_TableGeometry ==
    pc = "done" =>
        LET lines == Stdout
            n == Len(columns)
            lens(i) == { Len(columns[i]) } \cup { Len(rows[r][columns[i]]) : r \in DOMAIN rows }
            width == [i \in 1..n |-> CHOOSE w \in lens(i) : \A x \in lens(i) : x <= w]
            offset == [i \in 1..n |-> SumSeq([j \in 1..(i - 1) |-> width[j] + Len(Separator)])]
            total == SumSeq(width) + Len(Separator) * (n - 1)
            Cell(line, i) == SubSeq(line, offset[i] + 1, offset[i] + width[i])
            Padded(cell, text) ==
                /\ SubSeq(cell, 1, Len(text)) = text
                /\ \A k \in (Len(text) + 1)..Len(cell) : cell[k] = " "
        IN /\ Len(lines) = Len(rows) + 3
           /\ \A l \in DOMAIN lines : Len(lines[l]) = total
           /\ lines[1] = lines[3]
           /\ \A k \in 1..total : lines[1][k] = "="
           /\ \A i \in 1..n :
                 /\ Padded(Cell(lines[2], i), [k \in DOMAIN columns[i] |-> UpperChar(columns[i][k])])
                 /\ \A r \in DOMAIN rows : Padded(Cell(lines[r + 3], i), rows[r][columns[i]])
           /\ \A i \in 1..(n - 1) :
                 \A l \in {2} \cup { r + 3 : r \in DOMAIN rows } :
                    SubSeq(lines[l], offset[i] + width[i] + 1, offset[i + 1]) = Separator

C9_Witness ==
    /\ pc = "done"
    /\ Len(rows) = 2 /\ Len(columns) = 2
    /\ columns[1] # columns[2]
    /\ Len(rows[1][columns[1]]) > Len(columns[1])
    /\ \A r \in DOMAIN rows : Len(rows[r][columns[2]]) < Len(columns[2])
    /\ rows[1] # rows[2]

====
